---------------------------- MODULE Spec2Model ----------------------------
(***************************************************************************)
(* Model of bts_to_github/main.py: the one-way sync of Debian BTS bug      *)
(* reports to GitHub issues (BugSyncer).                                   *)
(*                                                                         *)
(* Text (titles, subjects, message ids, comment bodies) is a string taken  *)
(* apart and put together character by character, so that formatting and   *)
(* parsing are computed as the code computes them.                         *)
(***************************************************************************)
EXTENDS Integers, Sequences, FiniteSets, TLC

(***************************************************************************)
(* Bounds of the model.                                                    *)
(***************************************************************************)
\* longest tracker comment log of a bug
MaxLog == 2
\* number of successive runs of the program (main) in one behaviour
MaxPasses == 2
\* longest issue list handed to the Issue Matcher in SpecMatcher
MaxIssues == 2

\* the largest request quota of the host
MaxQuota == 13

(***************************************************************************)
(* Python string and list primitives.  Text is a TLA+ string, handled only *)
(* through Len, SubSeq and \o.                                             *)
(***************************************************************************)
\* s[i-1], the i-th character
At(s, i) == SubSeq(s, i, i)

\* s[n:]
Drop(s, n) == SubSeq(s, n + 1, Len(s))

\* s.startswith(p)
StartsWith(s, p) == Len(s) >= Len(p) /\ SubSeq(s, 1, Len(p)) = p

\* characters str.strip() removes
IsSpace(c) == c \in {" ", "\n", "\t"}

RECURSIVE LStrip(_)
LStrip(s) == IF Len(s) > 0 /\ IsSpace(At(s, 1)) THEN LStrip(Drop(s, 1)) ELSE s

RECURSIVE RStrip(_)
RStrip(s) ==
    IF Len(s) > 0 /\ IsSpace(At(s, Len(s))) THEN RStrip(SubSeq(s, 1, Len(s) - 1))
    ELSE s

\* s.strip()
Strip(s) == RStrip(LStrip(s))

\* the position of the first sep in s, Len(s) + 1 when it has none
RECURSIVE Find(_, _, _)
Find(s, sep, i) ==
    IF i > Len(s) \/ At(s, i) = sep THEN i ELSE Find(s, sep, i + 1)

\* s.split(sep, 1)[0]: the text before the first sep, all of s when it has none
SplitFirst(s, sep) == SubSeq(s, 1, Find(s, sep, 1) - 1)

\* s.splitlines(): the list of the lines of s ("" has no line at all)
RECURSIVE SplitLines(_)
SplitLines(s) ==
    IF Len(s) = 0 THEN <<>>
    ELSE LET first == SplitFirst(s, "\n")
         IN  <<first>> \o SplitLines(Drop(s, Len(first) + 1))

Digits == <<"0", "1", "2", "3", "4", "5", "6", "7", "8", "9">>

IsDigit(c) == \E d \in 1..10 : Digits[d] = c

DigitValue(c) == (CHOOSE d \in 1..10 : Digits[d] = c) - 1

\* "%d" % n, for n >= 0
RECURSIVE IntToStr(_)
IntToStr(n) ==
    IF n < 10 THEN Digits[n + 1]
    ELSE IntToStr(n \div 10) \o Digits[(n % 10) + 1]

RECURSIVE DigitsValue(_, _)
DigitsValue(s, acc) ==
    IF Len(s) = 0 THEN acc
    ELSE DigitsValue(Drop(s, 1), 10 * acc + DigitValue(At(s, 1)))

\* int(s): <<n>> when s is a base-10 integer literal (blanks around it and a
\* sign allowed, as Python allows them), <<>> when int() raises ValueError
IntParse(s) ==
    LET t      == Strip(s)
        signed == Len(t) > 0 /\ At(t, 1) \in {"+", "-"}
        body   == IF signed THEN Drop(t, 1) ELSE t
    IN  IF Len(body) = 0 \/ \E i \in 1..Len(body) : ~IsDigit(At(body, i)) THEN <<>>
        ELSE IF signed /\ At(t, 1) = "-" THEN <<0 - DigitsValue(body, 0)>>
        ELSE <<DigitsValue(body, 0)>>

(***************************************************************************)
(* Issue Matcher: BugSyncer.fetch_github_issues_by_repo.                   *)
(*                                                                         *)
(* A host issue is [number, title, labels, state, comments]; labels is the *)
(* set of the issue's label names.  The mapping `issues` is a function     *)
(* from bug numbers to the issue objects the listing returned.             *)
(***************************************************************************)
\* the body of the try block: <<num>> for a title that parses, <<>> when an
\* exception (IndexError, AssertionError, ValueError) is caught
ParseTitle(t) ==
    IF Len(t) = 0 THEN <<>>
    ELSE IF At(t, 1) # "[" THEN <<>>
    ELSE IntParse(SplitFirst(Drop(t, 1), "]"))

\* the first issue of a bug number kept, later ones left out
MatchStepKeepFirst(issues, issue) ==
    LET num == ParseTitle(issue.title)
    IN  IF num = <<>> \/ num[1] \in DOMAIN issues THEN issues
        ELSE [n \in DOMAIN issues \cup {num[1]} |->
                 IF n = num[1] THEN issue ELSE issues[n]]

\* one iteration of `for issue in g_issues`: a later issue of the same bug
\* number replaces the earlier one (line 141 runs after the duplicate is logged)
MatchStep(issues, issue) ==
    LET num == ParseTitle(issue.title)
    IN  IF num = <<>> THEN issues
        ELSE [n \in DOMAIN issues \cup {num[1]} |->
                 IF n = num[1] THEN issue ELSE issues[n]]

\* a label that never compares equal to the labels of an issue
FilterLabelNone(g_issues, sync_label) == <<>>

\* g_issues = [i for i in g_issues if sync_label in i.labels]
RECURSIVE FilterLabel(_, _)
FilterLabel(g_issues, sync_label) ==
    IF g_issues = <<>> THEN <<>>
    ELSE (IF sync_label \in Head(g_issues).labels THEN <<Head(g_issues)>> ELSE <<>>)
         \o FilterLabel(Tail(g_issues), sync_label)

RECURSIVE MatchLoop(_, _)
MatchLoop(issues, g_issues) ==
    IF g_issues = <<>> THEN issues
    ELSE MatchLoop(MatchStep(issues, Head(g_issues)), Tail(g_issues))

EmptyMap == [n \in {} |-> 0]

fetch_github_issues_by_repo(g_issues, sync_label) ==
    MatchLoop(EmptyMap, FilterLabel(g_issues, sync_label))

(***************************************************************************)
(* Bug Source: the tracker facade.                                         *)
(***************************************************************************)
\* extract_msg_id: <<id>>, or <<>> when ParsingError is raised
RECURSIVE FirstMsgId(_)
FirstMsgId(lines) ==
    IF lines = <<>> THEN <<>>
    ELSE IF StartsWith(Head(lines), "Message-ID:") \/ StartsWith(Head(lines), "Message-Id")
         THEN <<Strip(Drop(Head(lines), 11))>>
    ELSE FirstMsgId(Tail(lines))

extract_msg_id(header) == FirstMsgId(SplitLines(header))

\* extract_msg_author: <<author>>, or <<>> for None (no From: line)
RECURSIVE FirstAuthor(_)
FirstAuthor(lines) ==
    IF lines = <<>> THEN <<>>
    ELSE IF StartsWith(Head(lines), "From:") THEN <<Strip(Drop(Head(lines), 5))>>
    ELSE FirstAuthor(Tail(lines))

extract_msg_author(header) == FirstAuthor(SplitLines(header))

\* ordered_bug_log[msg_id] = (author, body): a key already present keeps its
\* place and takes the new value
DictSet(d, e) ==
    IF \E i \in 1..Len(d) : d[i].msg_id = e.msg_id
    THEN [i \in 1..Len(d) |-> IF d[i].msg_id = e.msg_id THEN e ELSE d[i]]
    ELSE Append(d, e)

\* fetch_bug_log: the OrderedDict msg_id -> (author, body), as the sequence of
\* its items; a message without a Message-ID is left out
RECURSIVE BugLogLoop(_, _)
BugLogLoop(d, raw) ==
    IF raw = <<>> THEN d
    ELSE LET b  == Head(raw)
             id == extract_msg_id(b.header)
         IN  IF id = <<>> THEN BugLogLoop(d, Tail(raw))
             ELSE BugLogLoop(DictSet(d, [msg_id |-> id[1],
                                         author |-> extract_msg_author(b.header),
                                         body   |-> b.body]),
                             Tail(raw))

fetch_bug_log(raw) == BugLogLoop(<<>>, raw)

(***************************************************************************)
(* Reconciler: the pure parts of BugSyncer.sync_bug.                       *)
(***************************************************************************)
\* "%s" % v for an optional text: None prints as "None"
PyStr(opt) == IF opt = <<>> THEN "None" ELSE opt[1]

\* the title without its brackets
IssueTitleNoBracket(bn, subject) == IntToStr(bn) \o " " \o subject

\* "[%d] %s" % (bn, summary.subject)
IssueTitle(bn, subject) == "[" \o IntToStr(bn) \o "] " \o subject

\* "BTS_msg_id: %s\nBTS author: %s\n\n%s" % (msg_id, author, body)
CommentBody(e) ==
    "BTS_msg_id: " \o e.msg_id \o "\nBTS author: " \o PyStr(e.author) \o "\n\n" \o e.body

\* OrderedDict.popitem(last): the argument is the flag `last`, not a key; the
\* code passes the message id, which is true unless it is the empty text
PopItem(d, key) ==
    IF d = <<>> THEN [ok |-> FALSE, d |-> d]
    ELSE [ok |-> TRUE,
          d  |-> IF Len(key) > 0 THEN SubSeq(d, 1, Len(d) - 1) ELSE Tail(d)]

\* the loop over issue.get_comments() (lines 207-212): ok is FALSE when an
\* exception is raised (IndexError on a body without lines, KeyError on
\* popitem of an empty dict)
RECURSIVE PopLoop(_, _)
PopLoop(d, comments) ==
    IF comments = <<>> THEN [ok |-> TRUE, d |-> d]
    ELSE LET lines == SplitLines(Head(comments))
         IN  IF lines = <<>> THEN [ok |-> FALSE, d |-> d]
             ELSE IF StartsWith(lines[1], "BTS_msg_id:")
                  THEN LET r == PopItem(d, Strip(Drop(lines[1], 11)))
                       IN  IF r.ok THEN PopLoop(r.d, Tail(comments)) ELSE r
             ELSE PopLoop(d, Tail(comments))

\* the two states swapped
ExpectedStateInverted(summary) == IF summary.done THEN "open" ELSE "closed"

\* expected_issue_state
ExpectedState(summary) == IF summary.done THEN "closed" ELSE "open"

(***************************************************************************)
(* The configuration and the two remote systems.                           *)
(***************************************************************************)
\* conf['sync_label']
SyncLabelName == "bts"

\* conf['repositories']
Conf == << [debian_pkg |-> "p1", github_repo |-> "r1"],
           [debian_pkg |-> "p2", github_repo |-> "r2"] >>

Pkgs == {Conf[i].debian_pkg : i \in 1..Len(Conf)}

Repos == {Conf[i].github_repo : i \in 1..Len(Conf)}

BugIds == {1, 2}

\* what debianbts.get_bug_log returns, longest case: a message with author, one
\* without From: line, one without Message-ID, a resent message, a new one
CanonLog == <<
    [header |-> "From: al\nMessage-ID: <m1>", body |-> "one"],
    [header |-> "Message-Id: <m2>\nTo: x",    body |-> "two\nlines"],
    [header |-> "From: bo\nMessage-ID: <m3>", body |-> "three"],
    [header |-> "From: cy\nSubject: s",       body |-> "lost"],
    [header |-> "From: al\nMessage-ID: <m1>", body |-> "again"] >>

\* what debianbts.get_status returns: a list with the bug's report, or empty
StatusChoices == { <<>>,
                   << [subject |-> "a", done |-> FALSE] >>,
                   << [subject |-> "b [2] c", done |-> TRUE] >> }

\* the tracker's data of one bug
BugData == [status : StatusChoices, loglen : 0..MaxLog]

\* debianbts.get_bug_log(bn)
RawLog(tr, bn) == SubSeq(CanonLog, 1, tr.bug[bn].loglen)

Issue(number, title, labels, state, comments) ==
    [number |-> number, title |-> title, labels |-> labels, state |-> state,
     comments |-> comments]

\* the issue object PyGithub hands out: the issue without its comments
IssueObject(i) ==
    [number |-> i.number, title |-> i.title, labels |-> i.labels, state |-> i.state]

NoIssue == [number |-> 0, title |-> "", labels |-> {}, state |-> ""]

NoSummary == [subject |-> "", done |-> FALSE]

\* issue lists a repository may hold before the first run
HostChoices == {
    <<>>,
    << Issue(1, "[1] a", {SyncLabelName}, "open", <<>>) >>,
    << Issue(1, "[1] a", {SyncLabelName}, "closed",
             << "BTS_msg_id: <m1>\nBTS author: al\n\none" >>) >>,
    << Issue(1, "[1] old title", {SyncLabelName, "bug"}, "open",
             << "me too", "BTS_msg_id: <m2>\nBTS author: None\n\ntwo\nlines" >>) >>,
    << Issue(1, "[1] a", {SyncLabelName}, "open",
             << "BTS_msg_id: <m1>\nx", "BTS_msg_id: <m2>\nx", "BTS_msg_id:<m9>" >>) >>,
    << Issue(1, "[2] a", {SyncLabelName}, "open", << "" >>) >>,
    << Issue(1, "[1] a", {"bug"}, "open", <<>>),
       Issue(2, "[2", {SyncLabelName}, "closed", <<>>) >>,
    << Issue(1, "[1] a", {SyncLabelName}, "closed", << "BTS_msg_id: <m1>" >>),
       Issue(2, "[1] a", {SyncLabelName}, "open", <<>>) >>,
    << Issue(1, "1] a", {SyncLabelName}, "open", <<>>),
       Issue(2, "[x] a", {SyncLabelName}, "open", <<>>) >> }

\* github_repo.get_issues(state='all'): every issue, newest first (the host's
\* default order); repository r holds its issues in creation order
ListIssues(h, r) ==
    [k \in 1..Len(h[r].issues) |-> IssueObject(h[r].issues[Len(h[r].issues) + 1 - k])]

(***************************************************************************)
(* State.                                                                  *)
(***************************************************************************)
VARIABLES
    dryrun,       \* self.dryrun
    tracker,      \* the tracker: [pkg: package -> bug numbers, bug: number -> BugData]
    host,         \* the host: repository -> [labels, issues]
    pass,         \* which run of the program this is
    pc,           \* where the run stands
    ri,           \* position of `for repo_conf in conf['repositories']`
    bug_numbers,  \* sync's bug_numbers
    issues,       \* sync's issues mapping
    bi,           \* position of `for bn in bug_numbers`
    summary,      \* sync_bug's summary
    issue,        \* sync_bug's issue
    bts_bug_logs, \* sync_bug's bts_bug_logs, the items not popped
    ci,           \* position of `for msg_id, comment_data in bts_bug_logs.iteritems()`
    calls,        \* the calls made since the current sync began, in order
    synced,       \* [prev, cur]: the pairs whose sync returned in the last run, in this run
    rate_limiting,\* self._ghclient.rate_limiting: << remaining, total >>
    slept         \* the argument of throttle's last sleep(), << >> before the first

vars == << dryrun, tracker, host, pass, pc, ri, bug_numbers, issues, bi, summary,
           issue, bts_bug_logs, ci, calls, synced, rate_limiting, slept >>

Call(op, bn, arg) == [op |-> op, bn |-> bn, arg |-> arg]

\* self.throttle()
Throttle == << Call("throttle", 0, "") >>

\* self.throttle_abuse_limit()
ThrottleAbuse == << Call("throttle_abuse_limit", 0, "") >>

repo == Conf[ri].github_repo

bn == bug_numbers[bi]

(***************************************************************************)
(* Host mutations.                                                         *)
(***************************************************************************)
\* a new open issue without any label
CreateIssueUnlabelled(h, r, title, labels) ==
    [h EXCEPT ![r].issues =
        Append(@, Issue(Len(@) + 1, title, {}, "open", <<>>))]

\* github_repo.create_issue(title, labels=[sync_label]): a new open issue
CreateIssue(h, r, title, labels) ==
    [h EXCEPT ![r].issues =
        Append(@, Issue(Len(@) + 1, title, labels, "open", <<>>))]

\* the issue's comments replaced by the new one
CreateCommentReplacing(h, r, number, body) ==
    [h EXCEPT ![r].issues[number].comments = << body >>]

\* issue.create_comment(body)
CreateComment(h, r, number, body) ==
    [h EXCEPT ![r].issues[number].comments = Append(@, body)]

\* issue.edit(state=state)
EditState(h, r, number, state) ==
    [h EXCEPT ![r].issues[number].state = state]

(***************************************************************************)
(* Initial states: one run about to start, for every dry-run flag, tracker *)
(* content and host content of the bounded sets.                           *)
(***************************************************************************)
\* fetch_bug_numbers_by_package: the bug numbers of each package
PkgChoices == { [p \in Pkgs |-> IF p = "p1" THEN <<1, 2>> ELSE <<2>>],
                [p \in Pkgs |-> IF p = "p1" THEN <<2, 1>> ELSE <<>>],
                [p \in Pkgs |-> IF p = "p1" THEN <<1>> ELSE <<1, 2>>] }

LabelChoices == { {SyncLabelName, "bug"}, {"bug"} }

Locals ==
    /\ bug_numbers = <<>>
    /\ issues = EmptyMap
    /\ bi = 0
    /\ summary = NoSummary
    /\ issue = NoIssue
    /\ bts_bug_logs = <<>>
    /\ ci = 0

Init ==
    /\ dryrun \in BOOLEAN
    /\ tracker \in [pkg : PkgChoices, bug : [BugIds -> BugData]]
    /\ \E l1 \in LabelChoices, l2 \in LabelChoices, i1 \in HostChoices :
          host = [r \in Repos |-> IF r = "r1" THEN [labels |-> l1, issues |-> i1]
                                  ELSE [labels |-> l2, issues |-> <<>>]]
    /\ pass = 1
    /\ pc = "sync"
    /\ ri = 1
    /\ Locals
    /\ calls = <<>>
    /\ synced = [prev |-> {}, cur |-> {}]
    /\ rate_limiting = << MaxQuota, MaxQuota >>
    /\ slept = << >>

(***************************************************************************)
(* BugSyncer.__init__ and BugSyncer.sync.                                  *)
(***************************************************************************)
\* sync returns to the loop of __init__, which goes on with the next pair
SyncReturns ==
    /\ synced' = [synced EXCEPT !.cur = @ \cup {ri}]
    /\ ri' = ri + 1
    /\ pc' = IF ri + 1 > Len(Conf) THEN "done" ELSE "sync"
    /\ bug_numbers' = <<>>
    /\ issues' = EmptyMap
    /\ bi' = 0

\* lines 154-158: the package's bug numbers, then get_repo
BeginSync ==
    /\ pc = "sync"
    /\ UNCHANGED << rate_limiting, slept >>
    /\ bug_numbers' = tracker.pkg[Conf[ri].debian_pkg]
    /\ calls' = << Call("get_bugs", 0, Conf[ri].debian_pkg),
                   Call("get_repo", 0, repo) >> \o Throttle
    /\ pc' = "get_label"
    /\ UNCHANGED << dryrun, tracker, host, pass, ri, issues, bi, summary, issue,
                    bts_bug_logs, ci, synced >>

\* get_label with its UnknownObjectException not caught
GetLabelUncaught ==
    /\ pc = "get_label"
    /\ UNCHANGED << rate_limiting, slept >>
    /\ IF SyncLabelName \in host[repo].labels
       THEN /\ calls' = calls \o << Call("get_label", 0, SyncLabelName) >> \o Throttle
            /\ pc' = "fetch_issues"
       ELSE /\ calls' = Append(calls, Call("get_label", 0, SyncLabelName))
            /\ pc' = "crashed"
    /\ UNCHANGED << dryrun, tracker, host, pass, ri, bug_numbers, issues, bi, summary,
                    issue, bts_bug_logs, ci, synced >>

\* lines 161-167: without the label, sync logs the error and returns
GetLabel ==
    /\ pc = "get_label"
    /\ UNCHANGED << rate_limiting, slept >>
    /\ IF SyncLabelName \in host[repo].labels
       THEN /\ calls' = calls \o << Call("get_label", 0, SyncLabelName) >> \o Throttle
            /\ pc' = "fetch_issues"
            /\ UNCHANGED << ri, bug_numbers, issues, bi, synced >>
       ELSE /\ calls' = Append(calls, Call("get_label", 0, SyncLabelName))
            /\ SyncReturns
    /\ UNCHANGED << dryrun, tracker, host, pass, summary, issue, bts_bug_logs, ci >>

\* lines 169-171
FetchIssues ==
    /\ pc = "fetch_issues"
    /\ UNCHANGED << rate_limiting, slept >>
    /\ issues' = fetch_github_issues_by_repo(ListIssues(host, repo), SyncLabelName)
    /\ calls' = calls \o << Call("get_issues", 0, repo) >> \o Throttle
    /\ bi' = 1
    /\ pc' = "bug_loop"
    /\ UNCHANGED << dryrun, tracker, host, pass, ri, bug_numbers, summary, issue,
                    bts_bug_logs, ci, synced >>

\* line 173, the loop is over: sync returns
EndSync ==
    /\ pc = "bug_loop"
    /\ UNCHANGED << rate_limiting, slept >>
    /\ bi > Len(bug_numbers)
    /\ SyncReturns
    /\ UNCHANGED << dryrun, tracker, host, pass, summary, issue, bts_bug_logs, ci,
                    calls >>

(***************************************************************************)
(* BugSyncer.sync_bug, one action per call to the tracker or the host.     *)
(* An exception nothing catches ends the run: pc = "crashed".              *)
(***************************************************************************)
\* lines 179-181: fetch_bug_summary raises RuntimeError when the tracker has
\* no data for the bug; neither sync_bug, sync, __init__ nor main catches it
FetchSummary ==
    /\ pc = "bug_loop"
    /\ UNCHANGED << rate_limiting, slept >>
    /\ bi <= Len(bug_numbers)
    /\ LET bug == tracker.bug[bn].status
       IN  IF bug = <<>>
           THEN /\ calls' = Append(calls, Call("get_status", bn, ""))
                /\ pc' = "crashed"
                /\ UNCHANGED summary
           ELSE /\ calls' = calls \o << Call("get_status", bn, "") >> \o Throttle
                /\ summary' = bug[1]
                /\ pc' = "existence"
    /\ UNCHANGED << dryrun, tracker, host, pass, ri, bug_numbers, issues, bi, issue,
                    bts_bug_logs, ci, synced >>

\* lines 185-199: reuse the matched issue, or return (dry run), or create it
IssueExistence ==
    /\ pc = "existence"
    /\ UNCHANGED << rate_limiting, slept >>
    /\ IF bn \in DOMAIN issues
       THEN /\ issue' = issues[bn]
            /\ pc' = "fetch_log"
            /\ UNCHANGED << host, calls >>
       ELSE IF dryrun
       THEN /\ pc' = "bug_done"
            /\ UNCHANGED << host, calls, issue >>
       ELSE LET title == IssueTitle(bn, summary.subject)
                h     == CreateIssue(host, repo, title, {SyncLabelName})
            IN  /\ host' = h
                /\ issue' = IssueObject(h[repo].issues[Len(h[repo].issues)])
                /\ calls' = calls \o << Call("create_issue", bn, title) >> \o ThrottleAbuse
                /\ pc' = "fetch_log"
    /\ UNCHANGED << dryrun, tracker, pass, ri, bug_numbers, issues, bi, summary,
                    bts_bug_logs, ci, synced >>

\* lines 201-203
FetchLog ==
    /\ pc = "fetch_log"
    /\ UNCHANGED << rate_limiting, slept >>
    /\ bts_bug_logs' = fetch_bug_log(RawLog(tracker, bn))
    /\ calls' = calls \o << Call("get_bug_log", bn, "") >> \o Throttle
    /\ pc' = "get_comments"
    /\ UNCHANGED << dryrun, tracker, host, pass, ri, bug_numbers, issues, bi, summary,
                    issue, ci, synced >>

\* lines 207-214: one item is popped for every marker comment of the issue
GetComments ==
    /\ pc = "get_comments"
    /\ UNCHANGED << rate_limiting, slept >>
    /\ LET r == PopLoop(bts_bug_logs, host[repo].issues[issue.number].comments)
       IN  IF r.ok
           THEN /\ bts_bug_logs' = r.d
                /\ ci' = 1
                /\ pc' = "create_comments"
           ELSE /\ pc' = "crashed"
                /\ UNCHANGED << bts_bug_logs, ci >>
    /\ calls' = Append(calls, Call("get_comments", bn, ""))
    /\ UNCHANGED << dryrun, tracker, host, pass, ri, bug_numbers, issues, bi, summary,
                    issue, synced >>

\* the loop over the items left, taken from the last item to the first
CreateCommentsLastFirst ==
    /\ pc = "create_comments"
    /\ UNCHANGED << rate_limiting, slept >>
    /\ ci <= Len(bts_bug_logs)
    /\ IF dryrun
       THEN UNCHANGED << host, calls >>
       ELSE LET newbody == CommentBody(bts_bug_logs[Len(bts_bug_logs) + 1 - ci])
            IN  /\ host' = CreateComment(host, repo, issue.number, newbody)
                /\ calls' = calls \o << Call("create_comment", bn, newbody) >>
                                  \o ThrottleAbuse
    /\ ci' = ci + 1
    /\ UNCHANGED << dryrun, tracker, pass, pc, ri, bug_numbers, issues, bi, summary,
                    issue, bts_bug_logs, synced >>

\* lines 216-225: one iteration of the loop over the items left
CreateComments ==
    /\ pc = "create_comments"
    /\ UNCHANGED << rate_limiting, slept >>
    /\ ci <= Len(bts_bug_logs)
    /\ IF dryrun
       THEN UNCHANGED << host, calls >>
       ELSE LET newbody == CommentBody(bts_bug_logs[ci])
            IN  /\ host' = CreateComment(host, repo, issue.number, newbody)
                /\ calls' = calls \o << Call("create_comment", bn, newbody) >>
                                  \o ThrottleAbuse
    /\ ci' = ci + 1
    /\ UNCHANGED << dryrun, tracker, pass, pc, ri, bug_numbers, issues, bi, summary,
                    issue, bts_bug_logs, synced >>

\* issue.edit updates the issue object, which the mapping holds too
Edited(map, number, state) ==
    [n \in DOMAIN map |->
        IF map[n].number = number THEN [map[n] EXCEPT !.state = state] ELSE map[n]]

\* lines 229-238, after the loop over the items left
StateConvergence ==
    /\ pc = "create_comments"
    /\ UNCHANGED << rate_limiting, slept >>
    /\ ci > Len(bts_bug_logs)
    /\ LET expected_issue_state == ExpectedState(summary)
       IN  IF issue.state # expected_issue_state /\ ~dryrun
           THEN /\ host' = EditState(host, repo, issue.number, expected_issue_state)
                /\ issue' = [issue EXCEPT !.state = expected_issue_state]
                /\ issues' = Edited(issues, issue.number, expected_issue_state)
                /\ calls' = calls \o << Call("edit", bn, expected_issue_state) >>
                                  \o ThrottleAbuse
           ELSE UNCHANGED << host, issue, issues, calls >>
    /\ pc' = "bug_done"
    /\ UNCHANGED << dryrun, tracker, pass, ri, bug_numbers, bi, summary,
                    bts_bug_logs, ci, synced >>

\* sync_bug returns to the loop of sync
BugReturn ==
    /\ pc = "bug_done"
    /\ UNCHANGED << rate_limiting, slept >>
    /\ bi' = bi + 1
    /\ pc' = "bug_loop"
    /\ summary' = NoSummary
    /\ issue' = NoIssue
    /\ bts_bug_logs' = <<>>
    /\ ci' = 0
    /\ UNCHANGED << dryrun, tracker, host, pass, ri, bug_numbers, issues, calls,
                    synced >>

\* a run begins, the tracker holding tr
RunStarts(tr) ==
    /\ pc \in {"done", "crashed"}
    /\ UNCHANGED << rate_limiting, slept >>
    /\ pass < MaxPasses
    /\ pass' = pass + 1
    /\ pc' = "sync"
    /\ ri' = 1
    /\ bug_numbers' = <<>>
    /\ issues' = EmptyMap
    /\ bi' = 0
    /\ summary' = NoSummary
    /\ issue' = NoIssue
    /\ bts_bug_logs' = <<>>
    /\ ci' = 0
    /\ calls' = <<>>
    /\ synced' = [prev |-> synced.cur, cur |-> {}]
    /\ tracker' = tr
    /\ UNCHANGED << dryrun, host >>

\* the program is run again (a batch job), after a run that ended or crashed
NewRun == RunStarts(tracker)

Next ==
    \/ BeginSync
    \/ GetLabel
    \/ FetchIssues
    \/ EndSync
    \/ FetchSummary
    \/ IssueExistence
    \/ FetchLog
    \/ GetComments
    \/ CreateComments
    \/ StateConvergence
    \/ BugReturn
    \/ NewRun

Spec == Init /\ [][Next]_vars

(***************************************************************************)
(* The Issue Matcher on its own: sync stands at line 169 of its first      *)
(* repository, which holds any list of at most MaxIssues issues with the   *)
(* titles below, labelled or not.                                          *)
(***************************************************************************)
TitleChoices == { "", "a", "1] a", "[1] a", "[1]", "[2] a]", "[12] [1]", "[1",
                  "[x] a", "[] a", "[ 2 ]a" }

MatcherIssues ==
    { Issue(0, t, l, "open", <<>>) : t \in TitleChoices, l \in LabelChoices }

\* the host numbers the issues in creation order
Numbered(list) == [k \in 1..Len(list) |-> [list[k] EXCEPT !.number = k]]

InitMatcher ==
    /\ dryrun = FALSE
    /\ tracker \in [pkg : PkgChoices, bug : [BugIds -> {[status |-> <<>>, loglen |-> 0]}]]
    /\ \E n \in 0..MaxIssues : \E list \in [1..n -> MatcherIssues] :
          host = [r \in Repos |-> [labels |-> {SyncLabelName},
                                   issues |-> IF r = "r1" THEN Numbered(list) ELSE <<>>]]
    /\ pass = 1
    /\ pc = "fetch_issues"
    /\ ri = 1
    /\ bug_numbers = tracker.pkg[Conf[1].debian_pkg]
    /\ issues = EmptyMap
    /\ bi = 0
    /\ summary = NoSummary
    /\ issue = NoIssue
    /\ bts_bug_logs = <<>>
    /\ ci = 0
    /\ calls = << Call("get_bugs", 0, Conf[1].debian_pkg), Call("get_repo", 0, "r1") >>
               \o Throttle \o << Call("get_label", 0, SyncLabelName) >> \o Throttle
    /\ synced = [prev |-> {}, cur |-> {}]
    /\ rate_limiting = << MaxQuota, MaxQuota >>
    /\ slept = << >>

NextMatcher == FetchIssues

SpecMatcher == InitMatcher /\ [][NextMatcher]_vars

(***************************************************************************)
(* Vocabulary of the properties.                                           *)
(***************************************************************************)
\* fetch_github_issues_by_repo has just returned
Matched == pc = "bug_loop" /\ bi = 1

\* the issues the Matcher was given, in the host's order
Listing == ListIssues(host, repo)

Labelled(i) == SyncLabelName \in i.labels

\* the issues of the mapping
Mapped == { issues[n] : n \in DOMAIN issues }

HasClosing(t) == \E k \in 1..Len(t) : At(t, k) = "]"

\* the title reads `[<integer>]...`
WellFormed(t) ==
    /\ Len(t) > 0
    /\ At(t, 1) = "["
    /\ HasClosing(t)
    /\ IntParse(SplitFirst(Drop(t, 1), "]")) # <<>>

\* the integer of a well-formed title
TitleId(t) == IntParse(SplitFirst(Drop(t, 1), "]"))[1]

\* positions of the listing whose issue is labelled and parsed to bug number n
Parsing(n) == { k \in 1..Len(Listing) :
                  Labelled(Listing[k]) /\ ParseTitle(Listing[k].title) = <<n>> }

ParsedIds == { ParseTitle(Listing[k].title)[1] :
                 k \in { j \in 1..Len(Listing) :
                           Labelled(Listing[j]) /\ ParseTitle(Listing[j].title) # <<>> } }

Max(S) == CHOOSE x \in S : \A y \in S : y <= x

Min(S) == CHOOSE x \in S : \A y \in S : x <= y

\* C5 (as claimed): the mapping holds exactly the labelled issues whose title
\* reads `[<integer>]...` (one of them for each bug number, duplicates being
\* C7's matter), and every title create_issue writes parses back to its bug
\* number.
C5_MatcherExact ==
    /\ Matched =>
          /\ \A i \in Mapped : Labelled(i) /\ WellFormed(i.title)
          /\ \A k \in 1..Len(Listing) :
                (Labelled(Listing[k]) /\ WellFormed(Listing[k].title)) =>
                   /\ TitleId(Listing[k].title) \in DOMAIN issues
                   /\ Parsing(TitleId(Listing[k].title)) = {k} => Listing[k] \in Mapped
    /\ \A n \in BugIds \cup {12, 120} : \A st \in StatusChoices :
          st # <<>> => ParseTitle(IssueTitle(n, st[1].subject)) = <<n>>

\* C6 (as claimed): a labelled issue whose title is empty, does not start with
\* `[`, has no closing `]` or has no integer between `[` and the first `]` gets
\* no entry, the Matcher returns, and every well-formed labelled issue has its
\* bug number mapped (to itself when it is the only issue of that number).
C6_MalformedSkipped ==
    Matched =>
       \A k \in 1..Len(Listing) :
          Labelled(Listing[k]) =>
             IF WellFormed(Listing[k].title)
             THEN /\ TitleId(Listing[k].title) \in DOMAIN issues
                  /\ Parsing(TitleId(Listing[k].title)) = {k}
                        => issues[TitleId(Listing[k].title)] = Listing[k]
             ELSE Listing[k] \notin Mapped

\* C7 (as claimed): of the labelled issues that parse to one bug number, the
\* mapping holds the first of the host's list and no other.
C7_FirstSeenWins ==
    Matched =>
       /\ DOMAIN issues = ParsedIds
       /\ \A n \in ParsedIds :
             /\ issues[n] = Listing[Min(Parsing(n))]
             /\ \A k \in Parsing(n) \ {Min(Parsing(n))} : Listing[k] \notin Mapped

\* C7 (amended): of the labelled issues that parse to one bug number, the
\* mapping holds the last of the host's list (the lowest-numbered one, the
\* host listing the newest issue first) and no other, and every parsed
\* bug number has its entry (the Matcher has returned: no exception escaped).
C7_LastSeenWins ==
    Matched =>
       /\ DOMAIN issues = ParsedIds
       /\ \A n \in ParsedIds :
             /\ issues[n] = Listing[Max(Parsing(n))]
             /\ \A k \in Parsing(n) : issues[n].number <= Listing[k].number
             /\ \A k \in Parsing(n) \ {Max(Parsing(n))} : Listing[k] \notin Mapped

\* two labelled issues of one bug number went through the Matcher
C7_Witness ==
    /\ Matched
    /\ \E n \in ParsedIds : Cardinality(Parsing(n)) >= 2

\* the calls of the current sync that change the host
Mutating(c) == c.op \in {"create_issue", "create_comment", "edit"}

Mutations == SelectSeq(calls, Mutating)

\* the calls of the current sync named op for bug number n
CallsOf(op, n) == SelectSeq(calls, LAMBDA c : c.op = op /\ c.bn = n)

\* a sync is under way (or has crashed) for the pair at position ri
InSync == pc \notin {"sync", "done"}

\* sync_bug has run to its end for bug number bn, with an issue in hand
BugSynced == pc = "bug_done" /\ issue # NoIssue

\* the host's record of the issue in hand
HostIssue == host[repo].issues[issue.number]

\* the target state of section 4.2, step 4
Target(s) == IF s.done THEN "closed" ELSE "open"

\* C1: in a run that follows a run in which the sync of the pair returned, in
\* normal mode and with the tracker unchanged, the sync of that pair makes no
\* create_issue, no create_comment and no state edit.
C1_Idempotent ==
    (~dryrun /\ pass >= 2 /\ InSync /\ ri \in synced.prev) => Mutations = <<>>

\* a second run is over whose first run created an issue with comments in r2,
\* closed it, and returned from both syncs
C1_Witness ==
    /\ ~dryrun
    /\ pass = 2
    /\ pc = "done"
    /\ synced.prev = {1, 2}
    /\ \E k \in 1..Len(host["r2"].issues) :
          /\ host["r2"].issues[k].comments # <<>>
          /\ host["r2"].issues[k].state = "closed"

\* the message id of a marker comment, <<>> for any other comment
MarkerId(body) ==
    LET lines == SplitLines(body)
    IN  IF lines # <<>> /\ StartsWith(lines[1], "BTS_msg_id:")
        THEN << Strip(Drop(lines[1], 11)) >>
        ELSE <<>>

Range(f) == { f[k] : k \in DOMAIN f }

\* the bodies of the comments the current sync created for bug number n
CreatedFor(n) == [k \in 1..Len(CallsOf("create_comment", n)) |->
                     CallsOf("create_comment", n)[k].arg]

\* the comments the issue in hand had when sync_bug read them
CommentsBefore ==
    SubSeq(HostIssue.comments, 1, Len(HostIssue.comments) - Len(CreatedFor(bn)))

MarkersBefore == { MarkerId(CommentsBefore[k])[1] :
                     k \in { j \in 1..Len(CommentsBefore) :
                               MarkerId(CommentsBefore[j]) # <<>> } }

\* the tracker's comments of bug number n, as fetch_bug_log yields them
TrackerLog(n) == fetch_bug_log(RawLog(tracker, n))

\* C2 (as claimed): for a bug matched to an existing issue, a normal-mode
\* sync_bug creates one comment for each tracker message id that no marker
\* line of the issue's comments carries, with that message's author and body,
\* and none for an id a marker line carries.
C2_CommentDedup ==
    (~dryrun /\ BugSynced /\ bn \in DOMAIN issues) =>
       LET missing == { k \in 1..Len(TrackerLog(bn)) :
                          TrackerLog(bn)[k].msg_id \notin MarkersBefore }
       IN  /\ Range(CreatedFor(bn)) = { CommentBody(TrackerLog(bn)[k]) : k \in missing }
           /\ Len(CreatedFor(bn)) = Cardinality(missing)

\* the current sync is over: its loop is exhausted, or an exception ended it
SyncOver == pc = "crashed" \/ (pc = "bug_loop" /\ bi > Len(bug_numbers))

\* C3 (as claimed): in a dry run no call changes the host, the summary of every
\* bug of the pass is fetched, and the comment log and the host comments are
\* fetched for every bug with a matched issue (and a record on the tracker).
C3_DryRun ==
    dryrun =>
       /\ Mutations = <<>>
       /\ SyncOver =>
             \A k \in 1..Len(bug_numbers) :
                /\ CallsOf("get_status", bug_numbers[k]) # <<>>
                /\ (bug_numbers[k] \in DOMAIN issues
                      /\ tracker.bug[bug_numbers[k]].status # <<>>) =>
                      /\ CallsOf("get_bug_log", bug_numbers[k]) # <<>>
                      /\ CallsOf("get_comments", bug_numbers[k]) # <<>>

\* C8 (as claimed): a bug the tracker has no record of is skipped and the run
\* goes on; the failed fetch of its summary never ends the run.
C8_NotFoundConfined ==
    ~ /\ pc = "crashed"
      /\ calls # <<>>
      /\ calls[Len(calls)].op = "get_status"
      /\ tracker.bug[calls[Len(calls)].bn].status = <<>>

\* the step of lines 229-238 is about to run in normal mode
AtStateStep == pc = "create_comments" /\ ci > Len(bts_bug_logs) /\ ~dryrun

C4_Converged ==
    (~dryrun /\ BugSynced) =>
       /\ HostIssue.state = Target(summary)
       /\ Len(CallsOf("edit", bn)) <= 1
       /\ \A k \in 1..Len(CallsOf("edit", bn)) :
             CallsOf("edit", bn)[k].arg = Target(summary)

C4_EditStep ==
    AtStateStep =>
       IF HostIssue.state # Target(summary)
       THEN /\ calls' = calls \o << Call("edit", bn, Target(summary)) >> \o ThrottleAbuse
            /\ host' = [host EXCEPT ![repo].issues[issue.number].state = Target(summary)]
       ELSE /\ calls' = calls
            /\ host' = host

\* C4: in normal mode sync_bug makes one state edit, to the target state
\* (closed iff the bug is done), when the host's state of the issue differs
\* from the target, and none when it is the target; when sync_bug ends the
\* issue is in the target state.
C4_StateConvergence == [](C4_Converged) /\ [][C4_EditStep]_vars

\* sync_bug ended after closing a matched issue that was open
C4_Witness ==
    /\ ~dryrun
    /\ BugSynced
    /\ bn \in DOMAIN issues
    /\ Len(CallsOf("edit", bn)) = 1
    /\ HostIssue.state = "closed"

\* the repository of the pair at position ri lacks the sync label
LabelMissing == SyncLabelName \notin host[repo].labels

C9_NoSyncWithoutLabel ==
    (pc \notin {"sync", "get_label", "done"}) => ~LabelMissing

C9_ReturnStep ==
    (pc = "get_label" /\ LabelMissing) =>
       /\ host' = host
       /\ SelectSeq(calls', LAMBDA c : c.op = "get_issues" \/ Mutating(c)) = <<>>
       /\ ri' = ri + 1
       /\ pc' = IF ri < Len(Conf) THEN "sync" ELSE "done"
       /\ pass' = pass

\* C9: when the repository lacks the sync label, sync returns without listing
\* the issues and without changing the repository, the run goes on with the
\* next pair of the configuration (or ends normally after the last), and no
\* step past get_label is ever taken for such a repository.
C9_LabelMissingConfined == [](C9_NoSyncWithoutLabel) /\ [][C9_ReturnStep]_vars

\* the second pair is being synced, and has changed its repository, in a run
\* whose first repository lacks the label
C9_Witness ==
    /\ pass = 1
    /\ ri = 2
    /\ pc = "bug_done"
    /\ SyncLabelName \notin host[Conf[1].github_repo].labels
    /\ Mutations # <<>>

(***************************************************************************)
(* Runs with the tracker changing in between: a package's bug list or one  *)
(* bug's report (subject, done) is another one when the next run begins.   *)
(* The first run starts in normal mode on repositories in which no two     *)
(* labelled issues parse to the same bug number.                           *)
(***************************************************************************)
TrackerChanges(tr) ==
    ({ [tr EXCEPT !.pkg = p] : p \in PkgChoices }
       \cup { [tr EXCEPT !.bug[n].status = st] : n \in BugIds, st \in StatusChoices })
    \ {tr}

NewRunChanged == \E tr \in TrackerChanges(tracker) : RunStarts(tr)

\* no two labelled issues of repository r parse to the same bug number
NoDuplicate(h, r) ==
    \A j, k \in 1..Len(h[r].issues) :
       (/\ j # k
        /\ Labelled(h[r].issues[j])
        /\ Labelled(h[r].issues[k])
        /\ ParseTitle(h[r].issues[j].title) # <<>>)
       => ParseTitle(h[r].issues[j].title) # ParseTitle(h[r].issues[k].title)

InitEvolve ==
    /\ Init
    /\ ~dryrun
    /\ \A r \in Repos : NoDuplicate(host, r)
    /\ SyncLabelName \in host["r2"].labels
    /\ \A n \in BugIds : tracker.bug[n].loglen = 1

NextEvolve == Next \/ NewRunChanged

SpecEvolve == InitEvolve /\ [][NextEvolve]_vars

C10_NoDuplicates == \A r \in Repos : NoDuplicate(host, r)

C10_Step ==
    \A r \in Repos :
       LET old == host[r].issues
           new == host'[r].issues
       IN  /\ Len(new) >= Len(old)
           /\ \A k \in 1..Len(old) :
                 /\ new[k].number = old[k].number
                 /\ new[k].title = old[k].title
                 /\ new[k].labels = old[k].labels
           /\ Len(new) > Len(old) =>
                 /\ Len(new) = Len(old) + 1
                 /\ r = repo
                 /\ Labelled(new[Len(new)])
                 /\ ParseTitle(new[Len(new)].title) = << bn >>
                 /\ \A k \in 1..Len(old) :
                       Labelled(old[k]) => ParseTitle(old[k].title) # << bn >>

\* C10: from repositories without two labelled issues of one bug number, no
\* sequence of normal-mode runs, the tracker's bug lists and reports changing
\* in between, leads to two labelled issues whose titles parse to the same bug
\* number; an issue is only ever added for a bug number that no labelled issue
\* of the repository parses to, and no issue is removed, renumbered, retitled
\* or relabelled.
C10_OneIssuePerBug == [](C10_NoDuplicates) /\ [][C10_Step]_vars

\* a later run ended in which a bug of the second package, whose issue an
\* earlier run created, is on the tracker under another subject
C10_Witness ==
    /\ pass >= 2
    /\ pc = "done"
    /\ \E k \in 1..Len(host["r2"].issues) : \E n \in BugIds :
          /\ ParseTitle(host["r2"].issues[k].title) = << n >>
          /\ \E j \in 1..Len(tracker.pkg["p2"]) : tracker.pkg["p2"][j] = n
          /\ tracker.bug[n].status # <<>>
          /\ host["r2"].issues[k].title # IssueTitle(n, tracker.bug[n].status[1].subject)

(***************************************************************************)
(* The marker lines of an issue.                                           *)
(***************************************************************************)
\* the message ids of the marker comments among the comments, in order
MarkerIds(comments) ==
    LET m == SelectSeq(comments, LAMBDA b : MarkerId(b) # <<>>)
    IN  [k \in 1..Len(m) |-> MarkerId(m[k])[1]]

\* no element occurs twice in the sequence
NoRepeat(s) == \A j, k \in 1..Len(s) : s[j] = s[k] => j = k

\* C11 (as claimed): from repositories in which no issue holds two marker
\* comments of one message id, no sequence of normal-mode runs leads to an
\* issue holding two comments whose marker lines carry the same message id.
C11_MarkerUnique ==
    ~dryrun =>
       \A r \in Repos : \A k \in 1..Len(host[r].issues) :
          NoRepeat(MarkerIds(host[r].issues[k].comments))

(***************************************************************************)
(* The scenario of a bug without a matched issue.                          *)
(***************************************************************************)
\* the positions in calls of the calls named op for bug number n
Positions(op, n) == { k \in 1..Len(calls) : calls[k].op = op /\ calls[k].bn = n }

\* the message ids of the tracker's comments of bug number n, in order
TrackerIds(n) == [k \in 1..Len(TrackerLog(n)) |-> TrackerLog(n)[k].msg_id]

\* C12: for a bug number without a matched issue, a normal-mode sync_bug makes
\* one create_issue, with the title `[<bug-id>] <subject>` and the sync label;
\* then one create_comment per tracker comment, the issue's comments being the
\* marker comments of the tracker's message ids; it makes no state edit when
\* the bug is not done and leaves the issue open, and makes one state edit,
\* after the creations, when the bug is done, which closes the issue.
C12_NewBug ==
    (~dryrun /\ BugSynced /\ bn \notin DOMAIN issues) =>
       /\ Len(CallsOf("create_issue", bn)) = 1
       /\ CallsOf("create_issue", bn)[1].arg = "[" \o IntToStr(bn) \o "] " \o summary.subject
       /\ HostIssue.title = CallsOf("create_issue", bn)[1].arg
       /\ HostIssue.labels = {SyncLabelName}
       /\ HostIssue.number = Len(host[repo].issues)
       /\ HostIssue.comments = CreatedFor(bn)
       /\ MarkerIds(HostIssue.comments) = TrackerIds(bn)
       /\ Len(HostIssue.comments) = Len(TrackerIds(bn))
       /\ HostIssue.state = IF summary.done THEN "closed" ELSE "open"
       /\ Len(CallsOf("edit", bn)) = IF summary.done THEN 1 ELSE 0
       /\ \A i \in Positions("create_issue", bn) :
             /\ \A j \in Positions("create_comment", bn) : i < j
             /\ \A e \in Positions("edit", bn) : i < e
       /\ \A j \in Positions("create_comment", bn) :
             \A e \in Positions("edit", bn) : j < e

\* sync_bug ended for a done bug without a matched issue: the issue was
\* created, took two comments and was closed
C12_Witness ==
    /\ ~dryrun
    /\ BugSynced
    /\ bn \notin DOMAIN issues
    /\ summary.done
    /\ Len(HostIssue.comments) >= 2
    /\ HostIssue.state = "closed"

(***************************************************************************)
(* Runs that are terminated inside sync_bug (a signal, a lost connection   *)
(* to the host): the process ends where it stands and the host keeps what   *)
(* was done. The runs are in normal mode, the tracker does not change, and  *)
(* the repositories hold no issue before the first run.                     *)
(***************************************************************************)
Interrupt ==
    /\ pc \in {"existence", "fetch_log", "get_comments", "create_comments", "bug_done"}
    /\ UNCHANGED << rate_limiting, slept >>
    /\ pc' = "crashed"
    /\ UNCHANGED << dryrun, tracker, host, pass, ri, bug_numbers, issues, bi, summary,
                    issue, bts_bug_logs, ci, calls, synced >>

InitInterrupt ==
    /\ Init
    /\ ~dryrun
    /\ \A r \in Repos : host[r].issues = <<>>

NextInterrupt == Next \/ Interrupt

SpecInterrupt == InitInterrupt /\ [][NextInterrupt]_vars

\* how many marker comments among the comments carry the message id
MarkerCount(comments, id) ==
    Cardinality({ k \in 1..Len(MarkerIds(comments)) : MarkerIds(comments)[k] = id })

\* C13 (as claimed): whenever sync_bug runs to its end, be it in the first run
\* or in a run that follows runs terminated inside sync_bug, every tracker
\* comment of the bug is mirrored exactly once on the issue, the issue holds no
\* other comment, and its state is the target state.
C13_Recovered ==
    BugSynced =>
       /\ \A k \in 1..Len(TrackerIds(bn)) :
             MarkerCount(HostIssue.comments, TrackerIds(bn)[k]) = 1
       /\ Len(HostIssue.comments) = Len(TrackerIds(bn))
       /\ HostIssue.state = Target(summary)

(***************************************************************************)
(* The order of the calls of one sync_bug.                                 *)
(***************************************************************************)
\* the place at which the message id first occurs in the tracker's raw log
FirstOccurrence(raw, id) ==
    Min({ k \in 1..Len(raw) : extract_msg_id(raw[k].header) = << id >> })

\* the message ids are in the order of their first occurrence in the raw log
InLogOrder(ids, raw) ==
    \A j, k \in 1..Len(ids) :
       j < k => FirstOccurrence(raw, ids[j]) < FirstOccurrence(raw, ids[k])

\* fetch_bug_log yields the message ids in the order of their first occurrence,
\* for every prefix of the longest log
LogKeepsOrder ==
    \A len \in 0..Len(CanonLog) :
       LET raw == SubSeq(CanonLog, 1, len)
           log == fetch_bug_log(raw)
       IN  InLogOrder([k \in 1..Len(log) |-> log[k].msg_id], raw)

\* C14: the create_comment calls of one sync_bug are made in the relative
\* order in which their message ids first occur in the tracker's comment log
\* (fetch_bug_log itself keeps that order, for a log with a resent message and
\* a message without id too), each of them after the issue's comments were
\* read and before the state edit.
C14_InOrder ==
    /\ \A n \in BugIds :
          /\ InLogOrder(MarkerIds(CreatedFor(n)), RawLog(tracker, n))
          /\ Len(MarkerIds(CreatedFor(n))) = Len(CreatedFor(n))
          /\ \A j \in Positions("create_comment", n) :
                /\ \E g \in Positions("get_comments", n) : g < j
                /\ \A e \in Positions("edit", n) : j < e
    /\ LogKeepsOrder

\* sync_bug ended after creating two comments on a matched issue and editing
\* its state
C14_Witness ==
    /\ ~dryrun
    /\ BugSynced
    /\ bn \in DOMAIN issues
    /\ Len(CreatedFor(bn)) >= 2
    /\ Len(CallsOf("edit", bn)) = 1

(***************************************************************************)
(* The comments of the host across the runs.                               *)
(***************************************************************************)
\* a comment a human wrote: it has a first line, which is not a marker line
Human(body) == SplitLines(body) # <<>> /\ MarkerId(body) = <<>>

\* every step leaves each issue's comments as they are or appends one comment
C15_AppendStep ==
    \A r \in Repos :
       /\ Len(host'[r].issues) >= Len(host[r].issues)
       /\ \A k \in 1..Len(host[r].issues) :
             LET old == host[r].issues[k].comments
                 new == host'[r].issues[k].comments
             IN  \/ new = old
                 \/ /\ Len(new) = Len(old) + 1
                    /\ SubSeq(new, 1, Len(old)) = old
                    /\ Range(MarkerIds(old)) \subseteq Range(MarkerIds(new))

\* what the loop over the issue's comments leaves of the tracker's log is what
\* it leaves when the human comments are taken out of the issue
C15_HumanIgnored ==
    pc = "get_comments" =>
       PopLoop(bts_bug_logs, HostIssue.comments)
          = PopLoop(bts_bug_logs, SelectSeq(HostIssue.comments, LAMBDA b : ~Human(b)))

\* C15: no step of any run removes or changes a comment of the host: the
\* comments of every issue only grow, by one appended comment at a time, and
\* the set of message ids of its marker lines never loses an element; the
\* comments a human wrote (first line not a marker) have no effect on which
\* tracker comments are mirrored.
C15_AppendOnly == [](C15_HumanIgnored) /\ [][C15_AppendStep]_vars

\* a run appended a marker comment to an issue that a human had commented on
C15_Witness ==
    \E k \in 1..Len(host["r1"].issues) :
       LET cs == host["r1"].issues[k].comments
       IN  /\ Len(cs) >= 3
           /\ Human(cs[1])
           /\ MarkerId(cs[Len(cs)]) # <<>>

(***************************************************************************)
(* The Throttler on its own: throttle() is called after a call to the      *)
(* host, for every quota reading the host can report (it never reports     *)
(* more remaining requests than the quota), and every call to the host     *)
(* uses up one request.  A delay is the fraction num / den of seconds;      *)
(* den = 0 stands for the ZeroDivisionError of a division by zero.          *)
(***************************************************************************)
\* one hour, whatever the reading
sleep_time_flat(remaining, total) == [num |-> 3600, den |-> 1]

\* lines 245-251: the argument of sleep(); total * 0.1 / remaining is
\* total / (10 * remaining)
sleep_time(remaining, total) ==
    IF remaining < 10
    THEN [num |-> 3600, den |-> 1]
    ELSE [num |-> total, den |-> 10 * remaining]

\* self._ghclient.rate_limiting
Readings == { rd \in (0..MaxQuota) \X (0..MaxQuota) : rd[1] <= rd[2] }

InitThrottle ==
    /\ dryrun = FALSE
    /\ tracker = [pkg |-> [p \in Pkgs |-> << >>],
                  bug |-> [n \in BugIds |-> [status |-> << >>, loglen |-> 0]]]
    /\ host = [r \in Repos |-> [labels |-> {SyncLabelName}, issues |-> << >>]]
    /\ pass = 1
    /\ pc = "throttle"
    /\ ri = 1
    /\ Locals
    /\ calls = << >>
    /\ synced = [prev |-> {}, cur |-> {}]
    /\ rate_limiting \in Readings
    /\ slept = << >>

\* lines 241-251
ThrottleSleeps ==
    /\ pc = "throttle"
    /\ slept' = << sleep_time(rate_limiting[1], rate_limiting[2]) >>
    /\ pc' = "throttled"
    /\ UNCHANGED << dryrun, tracker, host, pass, ri, bug_numbers, issues, bi, summary,
                    issue, bts_bug_logs, ci, calls, synced, rate_limiting >>

\* the next call to the host: the host counts one request less as remaining
HostCall ==
    /\ pc = "throttled"
    /\ rate_limiting[1] > 0
    /\ rate_limiting' = << rate_limiting[1] - 1, rate_limiting[2] >>
    /\ pc' = "throttle"
    /\ UNCHANGED << dryrun, tracker, host, pass, ri, bug_numbers, issues, bi, summary,
                    issue, bts_bug_logs, ci, calls, synced, slept >>

NextThrottle == ThrottleSleeps \/ HostCall

SpecThrottle == InitThrottle /\ [][NextThrottle]_vars

\* delay a is shorter than delay b
Shorter(a, b) == a.num * b.den < b.num * a.den

\* the delay throttle() slept is defined, is 3600 s below 10 remaining
\* requests, and total * 0.1 / remaining seconds otherwise
C16_Policy ==
    pc = "throttled" =>
       LET remaining == rate_limiting[1]
           total     == rate_limiting[2]
           s         == slept[1]
       IN  /\ s.den > 0
           /\ remaining < 10 => s.num = 3600 * s.den
           /\ remaining >= 10 => s.num * 10 * remaining = total * s.den

\* with 10 requests or more remaining, throttle() sleeps longer than it did
\* after the call before, when one more request was remaining
C16_Longer ==
    (pc = "throttle" /\ slept # << >> /\ rate_limiting[1] >= 10) =>
       Shorter(slept[1], slept'[1])

\* C16: for every quota reading with remaining >= 0, throttle() sleeps 3600
\* seconds when remaining < 10 and total * 0.1 / remaining seconds otherwise;
\* the delay is defined for every such reading (no division by zero), and for
\* a fixed total and remaining >= 10 it is strictly longer the smaller
\* remaining is.
C16_DelayPolicy == [](C16_Policy) /\ [][C16_Longer]_vars

\* throttle() has slept twice, the second time with 10 requests remaining
C16_Witness ==
    /\ pc = "throttled"
    /\ rate_limiting[1] = 10
    /\ rate_limiting[2] > 10
    /\ slept # << >>
    /\ Shorter([num |-> rate_limiting[2], den |-> 110], slept[1])

(***************************************************************************)
(* The pacing of the calls to the host within one sync.                    *)
(***************************************************************************)
\* the calls to the host
ToHost(c) == c.op \in {"get_repo", "get_label", "get_issues", "get_comments",
                       "create_issue", "create_comment", "edit"}

\* calls j and k are successive calls to the host
Successive(j, k) ==
    /\ j < k
    /\ ToHost(calls[j])
    /\ ToHost(calls[k])
    /\ \A m \in (j + 1)..(k - 1) : ~ToHost(calls[m])

\* C17 (as claimed): between two successive calls to the host there is a
\* throttle(), and a throttle_abuse_limit() too when the first of the two
\* creates content (create_issue, create_comment, state edit).
C17_Paced ==
    \A j, k \in 1..Len(calls) :
       Successive(j, k) =>
          /\ \E m \in (j + 1)..(k - 1) : calls[m].op = "throttle"
          /\ Mutating(calls[j]) =>
                \E m \in (j + 1)..(k - 1) : calls[m].op = "throttle_abuse_limit"

(***************************************************************************)
(* The wire format of a mirrored comment (spec, section 6).                *)
(***************************************************************************)
\* the body of the convention for the tracker comment e: the author line is
\* empty after `BTS author: ` when the comment has no author
WireBody(e) ==
    "BTS_msg_id: " \o e.msg_id \o "\nBTS author: "
       \o (IF e.author = << >> THEN "" ELSE e.author[1]) \o "\n\n" \o e.body

\* C18 (as claimed): every body passed to create_comment is, for one tracker
\* comment of the bug, the line `BTS_msg_id: <message-id>`, the line
\* `BTS author: <author>` with the author empty when the comment has no From
\* header, a blank line and the tracker body; and the marker parser reads
\* from its first line the message id of that tracker comment.
C18_WireFormat ==
    \A k \in 1..Len(calls) :
       calls[k].op = "create_comment" =>
          \E j \in 1..Len(TrackerLog(calls[k].bn)) :
             /\ calls[k].arg = WireBody(TrackerLog(calls[k].bn)[j])
             /\ MarkerId(calls[k].arg) = << TrackerLog(calls[k].bn)[j].msg_id >>

(***************************************************************************)
(* The dedup step against any content of the host.                         *)
(***************************************************************************)
\* C19 (as claimed): for a bug matched to an existing issue, no exception is
\* raised while sync_bug reads the issue's comments, whatever they are: the
\* run never ends at the loop over issue.get_comments().
C19_DedupCompletes ==
    (pc = "crashed" /\ bi \in 1..Len(bug_numbers) /\ bn \in DOMAIN issues) =>
       calls[Len(calls)].op # "get_comments"

(***************************************************************************)
(* The issues a sync changes.                                              *)
(***************************************************************************)
\* the current sync_bug has made a create_comment or a state edit
Touched ==
    /\ pc \in {"create_comments", "bug_done"}
    /\ issue # NoIssue
    /\ (CallsOf("create_comment", bn) # << >> \/ CallsOf("edit", bn) # << >>)

\* C20 (as claimed): an issue that received a create_comment or a state edit
\* carries the sync label and has a title that reads `[<bug-id>]...` for the
\* bug number being synced; it is the issue the Matcher mapped to that bug
\* number, or the one this sync_bug created.
C20_UnmanagedUntouched ==
    Touched =>
       /\ Labelled(HostIssue)
       /\ WellFormed(HostIssue.title)
       /\ TitleId(HostIssue.title) = bn
       /\ \/ (bn \in DOMAIN issues /\ issues[bn].number = issue.number)
          \/ CallsOf("create_issue", bn) # << >>

=============================================================================
